---- MODULE Spec2Model ----
(***************************************************************************)
(* Episode outcome evaluation of the "put X on Y" tasks                    *)
(* (mani_skill2_real2sim/envs/custom_scenes/put_on_in_scene.py).           *)
(*                                                                         *)
(* Lengths are decimal millimetre numerals: the integer n stands for the   *)
(* literal n/1000.  Planar and spatial norms are compared exactly (on      *)
(* squares); the vertical chain  offset[2] - tgt_half[2] - src_half[2]     *)
(* is carried out in IEEE binary64, as numpy does (see the Float section). *)
(* Impulses are integers in units of 1e-7.                                 *)
(***************************************************************************)
EXTENDS Integers, Sequences, FiniteSets, TLC

VARIABLES
    cls,                \* class of the environment instance (fixed at construction)
    episode,            \* what reset fixes for the episode: objects, after-settle poses, bboxes
    world,              \* the simulation state evaluate reads: poses, contacts, grasp signal
    consecutive_grasp,  \* self.consecutive_grasp
    episode_stats,      \* self.episode_stats
    ret,                \* the dict returned by the last evaluate call (NoRet before any)
    args,               \* the arguments of the last evaluate call
    grasp_hist,         \* history: check_grasp verdict of every evaluate call since reset
    last_op,            \* history: the operation that produced this state
    prev,               \* history: counter and stats a reset overwrote
    _xy_configs,        \* self._xy_configs (fixed at construction)
    _quat_configs,      \* self._quat_configs (fixed at construction)
    options,            \* the options the last bridge reset passed to super().reset
    info,               \* the info the last bridge reset returned
    stats_obj,          \* identity of the dict object self.episode_stats refers to
    held,               \* a result of evaluate the caller kept (NoHeld if none)
    peer                \* a second environment instance (NoPeer if none)

\* the instance's own attributes and what its calls return
self_vars == <<cls, episode, world, consecutive_grasp, episode_stats, ret, args,
               grasp_hist, prev, _xy_configs, _quat_configs, options, info,
               stats_obj>>

vars == <<self_vars, last_op, held, peer>>

----------------------------------------------------------------------------
(* Bounds of the model *)

\* evaluate calls per episode (max_episode_steps is 60 or 120 in the registrations)
MaxCalls == 6
\* evaluate calls per episode where objects are pushed around
MaxMoveCalls == 2
\* evaluate calls per episode of each of two instances
MaxTwoCalls == 2

(* Program constants, in the units above *)

\* self.consecutive_grasp >= 5
GraspThreshold == 5
\* ee_source_dist < 0.05
CloseEnough == 50
\* source_obj_xy_move_dist > 0.03, x > 0.03
MoveThreshold == 30
\* + 0.003 in xy_flag of PutOnInSceneEnv.evaluate
XYTolDefault == 3
\* + 0.01 in xy_flag of PutCarrotOnPlateInSceneLangV4.evaluate
XYTolInverted == 10
\* np.linalg.norm(contact_impulse) > 1e-6, in units of 1e-7
ImpulseThreshold == 10
\* z_flag_required_offset=0.02
ZOffsetDefault == 20
\* z_flag_required_offset=0.06 in PutEggplantInBasketScene.evaluate
ZOffsetEggplant == 60

DefaultCls == "PutOnInSceneEnv"
BridgeCls == "PutOnBridgeInSceneEnv"
BridgeV1Cls == "PutOnBridgeInSceneEnvV1"
InvertedCls == "PutCarrotOnPlateInSceneLangV4"
Classes == {DefaultCls, InvertedCls}
SpoonCls == "PutSpoonOnTableClothInScene"
EggplantCls == "PutEggplantInBasketScene"
SpoonDistractCls == "PutSpoonOnTableClothInSceneDistract"
SpoonLangV2Cls == "PutSpoonOnTableClothInSceneLangV2"
\* the classes whose calls go through a signature of their own, or through
\* the inherited one, to the body of PutOnInSceneEnv.evaluate
PolicyClasses == {SpoonCls, EggplantCls, SpoonDistractCls, SpoonLangV2Cls}

\* the parameters of PutOnInSceneEnv.evaluate
RequireParam == "success_require_src_completely_on_target"
ZOffsetParam == "z_flag_required_offset"

NoRet == [none |-> TRUE]
NoArgs == [none |-> TRUE]
NoPrev == [none |-> TRUE]
NoOptions == [none |-> TRUE]
NoInfo == [none |-> TRUE]
NoHeld == [none |-> TRUE]
NoPeer == [none |-> TRUE]
\* the exception Python raises when a call does not fit a signature
TypeError == [error |-> "TypeError"]

----------------------------------------------------------------------------
(* Exact arithmetic on squares *)

Sq(x) == x * x

\* |v[:2]|^2
Norm2Sq(v) == Sq(v[1]) + Sq(v[2])

\* |v|^2
Norm3Sq(v) == Sq(v[1]) + Sq(v[2]) + Sq(v[3])

VSub(a, b) == <<a[1] - b[1], a[2] - b[2], a[3] - b[3]>>

VAdd(a, b) == <<a[1] + b[1], a[2] + b[2], a[3] + b[3]>>

\* sqrt(a) <= sqrt(b) + t   for naturals a, b, t
SqrtLeqPlus(a, b, t) ==
    \/ a <= b + Sq(t)
    \/ Sq(a - b - Sq(t)) <= 4 * Sq(t) * b

----------------------------------------------------------------------------
(* Float: IEEE binary64 values, as numpy/Python hold the z coordinates.     *)
(* A value is [neg, mag]; mag is the magnitude in units of 2^-FracBits,     *)
(* written as NLimbs limbs of LimbBits bits, most significant first.  Every *)
(* binary64 between 2^-12 and 2^15 is exact on this grid, and so is every   *)
(* sum, difference and half of the millimetre literals the model uses.      *)

NLimbs == 5
LimbBits == 16
FracBits == 64
LimbBase == 2 ^ LimbBits
\* significand width of binary64
Mantissa == 53
\* millimetres per unit: the literal n stands for n / 1000
LitScale == 1000

ZeroMag == [i \in 1..NLimbs |-> 0]

\* number of bits of the natural x
RECURSIVE BitLen(_)
BitLen(x) == IF x = 0 THEN 0 ELSE 1 + BitLen(x \div 2)

\* number of bits of the magnitude m
RECURSIVE MagBitLen(_, _)
MagBitLen(m, i) ==
    IF i > NLimbs THEN 0
    ELSE IF m[i] # 0 THEN LimbBits * (NLimbs - i) + BitLen(m[i])
    ELSE MagBitLen(m, i + 1)

\* the limb holding bit j (bit 0 is the least significant)
LimbOf(j) == NLimbs - (j \div LimbBits)

\* bit j of m
BitAt(m, j) == (m[LimbOf(j)] \div (2 ^ (j % LimbBits))) % 2

\* some bit of m below bit j is 1
LowBits(m, j) ==
    \/ m[LimbOf(j)] % (2 ^ (j % LimbBits)) # 0
    \/ \E i \in (LimbOf(j) + 1)..NLimbs : m[i] # 0

\* m with the bits below bit j cleared
ClearLow(m, j) ==
    [i \in 1..NLimbs |->
        IF i < LimbOf(j) THEN m[i]
        ELSE IF i = LimbOf(j) THEN m[i] - (m[i] % (2 ^ (j % LimbBits)))
        ELSE 0]

\* 2^j
Pow2Mag(j) ==
    [i \in 1..NLimbs |-> IF i = LimbOf(j) THEN 2 ^ (j % LimbBits) ELSE 0]

\* a + b, from the last limb up
RECURSIVE AddLoop(_, _, _, _)
AddLoop(a, b, k, carry) ==
    IF k = 0 THEN <<>>
    ELSE Append(AddLoop(a, b, k - 1, (a[k] + b[k] + carry) \div LimbBase),
                (a[k] + b[k] + carry) % LimbBase)

MagAdd(a, b) == AddLoop(a, b, NLimbs, 0)

\* a - b for a >= b, from the last limb up
RECURSIVE SubLoop(_, _, _, _)
SubLoop(a, b, k, borrow) ==
    IF k = 0 THEN <<>>
    ELSE Append(SubLoop(a, b, k - 1, IF a[k] - b[k] - borrow < 0 THEN 1 ELSE 0),
                (a[k] - b[k] - borrow + LimbBase) % LimbBase)

MagSub(a, b) == SubLoop(a, b, NLimbs, 0)

MagLt(a, b) ==
    \E i \in 1..NLimbs : a[i] < b[i] /\ \A j \in 1..(i - 1) : a[j] = b[j]

\* round to nearest, ties to even, at Mantissa significant bits;
\* sticky: the exact value has nonzero bits below the grid
Round53(m, sticky) ==
    LET drop == MagBitLen(m, 1) - Mantissa
    IN  IF drop <= 0 THEN m
        ELSE LET guard == BitAt(m, drop - 1)
                 rest == sticky \/ LowBits(m, drop - 1)
                 up == guard = 1 /\ (rest \/ BitAt(m, drop) = 1)
             IN  IF up THEN MagAdd(ClearLow(m, drop), Pow2Mag(drop))
                 ELSE ClearLow(m, drop)

\* the limbs of r * LimbBase^k / LitScale, most significant first
RECURSIVE LongDiv(_, _, _)
LongDiv(r, k, acc) ==
    IF k = 0 THEN [mag |-> acc, sticky |-> r # 0]
    ELSE LongDiv((r * LimbBase) % LitScale, k - 1,
                 Append(acc, (r * LimbBase) \div LitScale))

Abs(n) == IF n < 0 THEN 0 - n ELSE n

\* float(n / 1000): the binary64 nearest to the decimal literal
FromLit(n) ==
    LET d == LongDiv(Abs(n) % LitScale, NLimbs - 1, <<Abs(n) \div LitScale>>)
    IN  [neg |-> n < 0, mag |-> Round53(d.mag, d.sticky)]

FNeg(x) == [neg |-> ~x.neg /\ x.mag # ZeroMag, mag |-> x.mag]

\* x + y, correctly rounded
FAdd(x, y) ==
    IF x.neg = y.neg
    THEN [neg |-> x.neg, mag |-> Round53(MagAdd(x.mag, y.mag), FALSE)]
    ELSE IF MagLt(x.mag, y.mag)
    THEN [neg |-> y.neg, mag |-> Round53(MagSub(y.mag, x.mag), FALSE)]
    ELSE [neg |-> x.neg /\ x.mag # y.mag,
          mag |-> Round53(MagSub(x.mag, y.mag), FALSE)]

\* x - y, correctly rounded
FSub(x, y) == FAdd(x, FNeg(y))

\* x / 2 (exact: the last bit of x is 0 on this grid)
FHalf(x) ==
    [neg |-> x.neg,
     mag |-> [i \in 1..NLimbs |->
                 x.mag[i] \div 2
                 + (IF i > 1 THEN (x.mag[i - 1] % 2) * (LimbBase \div 2) ELSE 0)]]

\* x <= y
FLeq(x, y) ==
    IF x.neg /\ ~y.neg THEN TRUE
    ELSE IF ~x.neg /\ y.neg THEN x.mag = ZeroMag /\ y.mag = ZeroMag
    ELSE IF x.neg THEN ~MagLt(x.mag, y.mag)
    ELSE ~MagLt(y.mag, x.mag)

\* x > 0
FPositive(x) == ~x.neg /\ x.mag # ZeroMag

----------------------------------------------------------------------------
(* The predicates of evaluate.  w is the world, ep the episode.            *)

source_obj_pose_p(w, ep) == w.obj_p[ep.source_obj_id]

target_obj_pose_p(w, ep) == w.obj_p[ep.target_obj_id]

episode_source_obj_name(ep) == ep.objs[ep.source_obj_id]

episode_target_obj_name(ep) == ep.objs[ep.target_obj_id]

\* any(self.agent.check_contact_fingers(self.episode_source_obj))
made_contact(w) == \E i \in 1..Len(w.fingers) : w.fingers[i]

\* faulty variant: <= for <
close_enough_Leq(w, ep) ==
    Norm3Sq(VSub(w.ee_p, source_obj_pose_p(w, ep))) <= Sq(CloseEnough)

\* ee_source_dist < 0.05
close_enough(w, ep) ==
    Norm3Sq(VSub(w.ee_p, source_obj_pose_p(w, ep))) < Sq(CloseEnough)

source_intention_now(w, ep) == made_contact(w) \/ close_enough(w, ep)

\* square of source_obj_xy_move_dist
source_obj_xy_move_dist(w, ep) ==
    Norm2Sq(VSub(ep.settle[ep.source_obj_id], source_obj_pose_p(w, ep)))

\* faulty variant: the target is left out like the source
OtherObjs_NoTarget(ep) ==
    {i \in 1..Len(ep.objs) :
        /\ ep.objs[i] # episode_source_obj_name(ep)
        /\ ep.objs[i] # episode_target_obj_name(ep)}

\* the objects the loop does not skip: those whose name is not the source's
OtherObjs(ep) ==
    {i \in 1..Len(ep.objs) : ep.objs[i] # episode_source_obj_name(ep)}

\* squares of other_obj_xy_move_dist, by object index
other_obj_xy_move_dist(w, ep) ==
    [i \in OtherObjs(ep) |-> Norm2Sq(VSub(ep.settle[i], w.obj_p[i]))]

\* faulty variant: any for all
moved_correct_obj_Any(w, ep) ==
    /\ source_obj_xy_move_dist(w, ep) > Sq(MoveThreshold)
    /\ \E i \in OtherObjs(ep) :
           other_obj_xy_move_dist(w, ep)[i] < source_obj_xy_move_dist(w, ep)

\* faulty variant: >= for > on the source displacement
moved_correct_obj_Geq(w, ep) ==
    /\ source_obj_xy_move_dist(w, ep) >= Sq(MoveThreshold)
    /\ \A i \in OtherObjs(ep) :
           other_obj_xy_move_dist(w, ep)[i] < source_obj_xy_move_dist(w, ep)

moved_correct_obj(w, ep) ==
    /\ source_obj_xy_move_dist(w, ep) > Sq(MoveThreshold)
    /\ \A i \in OtherObjs(ep) :
           other_obj_xy_move_dist(w, ep)[i] < source_obj_xy_move_dist(w, ep)

\* faulty variant: >= for > on the threshold
moved_wrong_obj_Geq(w, ep) ==
    /\ \E i \in OtherObjs(ep) : other_obj_xy_move_dist(w, ep)[i] >= Sq(MoveThreshold)
    /\ \E i \in OtherObjs(ep) :
           other_obj_xy_move_dist(w, ep)[i] > source_obj_xy_move_dist(w, ep)

moved_wrong_obj(w, ep) ==
    /\ \E i \in OtherObjs(ep) : other_obj_xy_move_dist(w, ep)[i] > Sq(MoveThreshold)
    /\ \E i \in OtherObjs(ep) :
           other_obj_xy_move_dist(w, ep)[i] > source_obj_xy_move_dist(w, ep)

\* self.agent.check_grasp(self.episode_source_obj)
is_src_obj_grasped(w) == w.grasp

\* faulty variant: the else branch that clears the counter is missing
NextConsecutiveGrasp_NoReset(cg, grasped) == IF grasped THEN cg + 1 ELSE cg

\* the counter after the update of this call
NextConsecutiveGrasp(cg, grasped) == IF grasped THEN cg + 1 ELSE 0

\* faulty variant: > for >=
consecutive_grasp_now_Strict(cg) == cg > GraspThreshold

\* consecutive_grasp = self.consecutive_grasp >= 5
consecutive_grasp_now(cg) == cg >= GraspThreshold

\* offset[:2] and the half bbox, planar part
xy_flag(w, ep, tol) ==
    LET offset == VSub(source_obj_pose_p(w, ep), target_obj_pose_p(w, ep))
        tgt_obj_half_length_bbox == <<ep.tgt_bbox[1] \div 2, ep.tgt_bbox[2] \div 2>>
    IN  SqrtLeqPlus(Norm2Sq(offset), Norm2Sq(tgt_obj_half_length_bbox), tol)

\* the vertical test, in binary64, on the literals src_z, tgt_z (positions),
\* tgt_bbox_z, src_bbox_z (full extents) and the tolerance zoff
z_flag_float(src_z, tgt_z, tgt_bbox_z, src_bbox_z, zoff) ==
    LET offset2 == FSub(FromLit(src_z), FromLit(tgt_z))
        tgt_half2 == FHalf(FromLit(tgt_bbox_z))
        src_half2 == FHalf(FromLit(src_bbox_z))
    IN  /\ FPositive(offset2)
        /\ FLeq(FSub(FSub(offset2, tgt_half2), src_half2), FromLit(zoff))

z_flag(w, ep, zoff) ==
    z_flag_float(source_obj_pose_p(w, ep)[3], target_obj_pose_p(w, ep)[3],
                 ep.tgt_bbox[3], ep.src_bbox[3], zoff)

\* np.sum([point.impulse for point in contact.points], axis=0)
RECURSIVE contact_impulse(_)
contact_impulse(points) ==
    IF points = <<>> THEN <<0, 0, 0>>
    ELSE VAdd(Head(points), contact_impulse(Tail(points)))

NoName == "None"

\* faulty variant: the elif branch for actor_1 is missing
other_obj_contact_actor_name_Actor0Only(c, ep) ==
    IF c.actor0 = episode_source_obj_name(ep) THEN c.actor1 ELSE NoName

other_obj_contact_actor_name(c, ep) ==
    IF c.actor0 = episode_source_obj_name(ep) THEN c.actor1
    ELSE IF c.actor1 = episode_source_obj_name(ep) THEN c.actor0
    ELSE NoName

ignore_actor_names(ep) == {episode_target_obj_name(ep)} \cup ep.robot_links

\* faulty variant: >= for > on the impulse
Disqualifies_Geq(c, ep) ==
    /\ other_obj_contact_actor_name(c, ep) # NoName
    /\ other_obj_contact_actor_name(c, ep) \notin ignore_actor_names(ep)
    /\ Norm3Sq(contact_impulse(c.points)) >= Sq(ImpulseThreshold)

\* the contact that sets flag = False
Disqualifies(c, ep) ==
    /\ other_obj_contact_actor_name(c, ep) # NoName
    /\ other_obj_contact_actor_name(c, ep) \notin ignore_actor_names(ep)
    /\ Norm3Sq(contact_impulse(c.points)) > Sq(ImpulseThreshold)

\* flag after the loop over self._scene.get_contacts()
contact_flag(w, ep) ==
    ~\E k \in 1..Len(w.contacts) : Disqualifies(w.contacts[k], ep)

\* src_on_target of PutOnInSceneEnv.evaluate, after the refinement
src_on_target_default(w, ep, require, zoff) ==
    LET src_on_target == xy_flag(w, ep, XYTolDefault) /\ z_flag(w, ep, zoff)
    IN  IF require THEN src_on_target /\ contact_flag(w, ep) ELSE src_on_target

\* faulty variant: the commented-out refinement is active
src_on_target_inverted_Refined(w, ep, require, zoff) ==
    LET src_on_target == xy_flag(w, ep, XYTolInverted) /\ z_flag(w, ep, zoff)
    IN  IF require THEN src_on_target /\ contact_flag(w, ep) ELSE src_on_target

\* faulty variant: the planar tolerance is missing
src_on_target_inverted_NoTolerance(w, ep, require, zoff) ==
    xy_flag(w, ep, 0) /\ z_flag(w, ep, zoff)

\* src_on_target of PutCarrotOnPlateInSceneLangV4.evaluate (the refinement is commented out)
src_on_target_inverted(w, ep, require, zoff) ==
    xy_flag(w, ep, XYTolInverted) /\ z_flag(w, ep, zoff)

\* faulty variant: the negated policy of the LangV4 task
success_default_Negated(src_on_target) == ~src_on_target

\* success = src_on_target
success_default(src_on_target) == src_on_target

\* faulty variant: the negation is missing
success_inverted_NoNegation(src_on_target, moved_correct, consecutive) ==
    src_on_target /\ moved_correct /\ consecutive

\* faulty variant: the grasp condition is missing
success_inverted_NoGrasp(src_on_target, moved_correct, consecutive) ==
    (~src_on_target) /\ moved_correct

\* success = (not src_on_target) and moved_correct_obj and consecutive_grasp
success_inverted(src_on_target, moved_correct, consecutive) ==
    (~src_on_target) /\ moved_correct /\ consecutive

\* faulty variant: the accumulated fields are overwritten
AccumulateStats_Overwrite(stats, grasped, consecutive, intention) ==
    [stats EXCEPT
        !.is_src_obj_grasped = grasped,
        !.consecutive_grasp = consecutive,
        !.source_intention = intention]

\* faulty variant: is_src_obj_grasped accumulates the consecutive flag
AccumulateStats_WrongFlag(stats, grasped, consecutive, intention) ==
    [stats EXCEPT
        !.is_src_obj_grasped = stats.is_src_obj_grasped \/ consecutive,
        !.consecutive_grasp = stats.consecutive_grasp \/ consecutive,
        !.source_intention = stats.source_intention \/ intention]

\* the accumulated fields
AccumulateStats(stats, grasped, consecutive, intention) ==
    [stats EXCEPT
        !.is_src_obj_grasped = stats.is_src_obj_grasped \/ grasped,
        !.consecutive_grasp = stats.consecutive_grasp \/ consecutive,
        !.source_intention = stats.source_intention \/ intention]

\* faulty variant: the instantaneous fields are accumulated like the others
OverwriteStats_Accumulate(stats, moved_correct, moved_wrong, on_target) ==
    [stats EXCEPT !.moved_correct_obj = stats.moved_correct_obj \/ moved_correct,
                  !.moved_wrong_obj = stats.moved_wrong_obj \/ moved_wrong,
                  !.src_on_target = on_target]

\* the fields assigned the value of this call
OverwriteStats(stats, moved_correct, moved_wrong, on_target) ==
    [stats EXCEPT !.moved_correct_obj = moved_correct,
                  !.moved_wrong_obj = moved_wrong,
                  !.src_on_target = on_target]

\* faulty variant: success is latched through the stats
evaluate_out_Latched(w, ep, cg, stats, require, zoff) ==
    LET grasped == is_src_obj_grasped(w)
        cg1 == NextConsecutiveGrasp(cg, grasped)
        src_on_target == src_on_target_default(w, ep, require, zoff)
        success == success_default(src_on_target) \/ stats.src_on_target
    IN  [consecutive_grasp |-> cg1,
         episode_stats |->
            AccumulateStats(
                OverwriteStats(stats, moved_correct_obj(w, ep),
                               moved_wrong_obj(w, ep), src_on_target \/ stats.src_on_target),
                grasped, consecutive_grasp_now(cg1), source_intention_now(w, ep)),
         ret |-> [moved_correct_obj |-> moved_correct_obj(w, ep),
                  moved_wrong_obj |-> moved_wrong_obj(w, ep),
                  is_src_obj_grasped |-> grasped,
                  consecutive_grasp |-> consecutive_grasp_now(cg1),
                  src_on_target |-> src_on_target,
                  success |-> success]]

\* PutOnInSceneEnv.evaluate: the counter and stats it leaves, the dict it returns
evaluate_out(w, ep, cg, stats, require, zoff) ==
    LET grasped == is_src_obj_grasped(w)
        cg1 == NextConsecutiveGrasp(cg, grasped)
        src_on_target == src_on_target_default(w, ep, require, zoff)
        success == success_default(src_on_target)
    IN  [consecutive_grasp |-> cg1,
         episode_stats |->
            AccumulateStats(
                OverwriteStats(stats, moved_correct_obj(w, ep),
                               moved_wrong_obj(w, ep), src_on_target),
                grasped, consecutive_grasp_now(cg1), source_intention_now(w, ep)),
         ret |-> [moved_correct_obj |-> moved_correct_obj(w, ep),
                  moved_wrong_obj |-> moved_wrong_obj(w, ep),
                  is_src_obj_grasped |-> grasped,
                  consecutive_grasp |-> consecutive_grasp_now(cg1),
                  src_on_target |-> src_on_target,
                  success |-> success]]

\* PutCarrotOnPlateInSceneLangV4.evaluate
evaluate_inverted_out(w, ep, cg, stats, require, zoff) ==
    LET grasped == is_src_obj_grasped(w)
        cg1 == NextConsecutiveGrasp(cg, grasped)
        src_on_target == src_on_target_inverted(w, ep, require, zoff)
        success == success_inverted(src_on_target, moved_correct_obj(w, ep),
                                    consecutive_grasp_now(cg1))
    IN  [consecutive_grasp |-> cg1,
         episode_stats |->
            AccumulateStats(
                OverwriteStats(stats, moved_correct_obj(w, ep),
                               moved_wrong_obj(w, ep), ~src_on_target),
                grasped, consecutive_grasp_now(cg1), source_intention_now(w, ep)),
         ret |-> [moved_correct_obj |-> moved_correct_obj(w, ep),
                  moved_wrong_obj |-> moved_wrong_obj(w, ep),
                  is_src_obj_grasped |-> grasped,
                  consecutive_grasp |-> consecutive_grasp_now(cg1),
                  src_on_target |-> src_on_target,
                  success |-> success]]

\* faulty variant: the position index varies fastest
xy_config_index_Fastest(episode_id, n_xy, n_quat) == episode_id % n_xy

\* faulty variant: the remainder of the magnitude, as where % truncates
xy_config_index_Magnitude(episode_id, n_xy, n_quat) ==
    ((IF episode_id < 0 THEN 0 - episode_id ELSE episode_id) % (n_xy * n_quat))
        \div n_quat

\* (episode_id % (len(self._xy_configs) * len(self._quat_configs)))
\*     // len(self._quat_configs)
xy_config_index(episode_id, n_xy, n_quat) ==
    (episode_id % (n_xy * n_quat)) \div n_quat

\* episode_id % len(self._quat_configs)
quat_config_index(episode_id, n_quat) == episode_id % n_quat

\* a Python list read at a 0-based index
ListItem(list, i) == list[i + 1]

\* self._source_obj_name, self._target_obj_name, self._other_obj_names of the
\* task the model constructs
_source_obj_name == "carrot"
_target_obj_name == "plate"
_other_obj_names == <<"spoon">>

\* a Python dict with string keys is a function on its keys
EmptyDict == [k \in {} |-> TRUE]

\* d[k] = v for every key k of u
DictAssign(d, u) == u @@ d

\* d.get(k, default)
DictGet(d, k, default) == IF k \in DOMAIN d THEN d[k] ELSE default

\* episode_id = obj_init_options.get("episode_id", randint(N)): the values
\* it can have, randint(N) returning any of 0..N-1
ChosenEpisodeIds(caller, N) ==
    LET given == DictGet(caller, "obj_init_options", EmptyDict)
    IN  IF "episode_id" \in DOMAIN given THEN {given.episode_id} ELSE 0..(N - 1)

\* faulty variant: keys the caller set are kept (setdefault for assignment)
BridgeOptions_KeepsCaller(caller, episode_id, model_ids, xy_configs, quat_configs) ==
    DictAssign(caller,
        [model_ids |-> DictGet(caller, "model_ids", model_ids),
         obj_init_options |->
            DictGet(caller, "obj_init_options", EmptyDict) @@
            [source_obj_id |-> 0,
             target_obj_id |-> 1,
             init_xys |->
                ListItem(xy_configs,
                         xy_config_index(episode_id, Len(xy_configs),
                                         Len(quat_configs))),
             init_rot_quats |->
                ListItem(quat_configs,
                         quat_config_index(episode_id, Len(quat_configs)))]])

\* what the reset of a bridge environment passes to super().reset: copies of
\* the caller's options and obj_init_options with the keys of the task assigned
BridgeOptions(caller, episode_id, model_ids, xy_configs, quat_configs) ==
    DictAssign(caller,
        [model_ids |-> model_ids,
         obj_init_options |->
            DictAssign(DictGet(caller, "obj_init_options", EmptyDict),
                [source_obj_id |-> 0,
                 target_obj_id |-> 1,
                 init_xys |->
                    ListItem(xy_configs,
                             xy_config_index(episode_id, Len(xy_configs),
                                             Len(quat_configs))),
                 init_rot_quats |->
                    ListItem(quat_configs,
                             quat_config_index(episode_id, Len(quat_configs)))])])

\* the dict evaluate returns: the values of the call and, under the key
\* episode_stats, the object self.episode_stats itself (a reference, not a copy)
ReturnedDict(r, obj) == r @@ [episode_stats |-> obj]

\* the item assignments of evaluate change the dict object in place: a kept
\* result that refers to that object shows the new content
HeldAfterEvaluate(h, obj, stats) ==
    IF h # NoHeld /\ h.obj = obj THEN [h EXCEPT !.content = stats] ELSE h

\* object identities
StatsObjs == {1, 2}

\* self.episode_stats = OrderedDict(...): a new object.  The dict it replaces
\* lives on only if the caller kept a result that refers to it; the new
\* object is distinct from every object that lives on.
NewStatsObj(h) ==
    CHOOSE o \in StatsObjs :
        /\ (h # NoHeld => o # h.obj)
        /\ \A o2 \in StatsObjs : (h # NoHeld => o2 # h.obj) => o <= o2

\* PutOnInSceneEnv._initialize_episode_stats
_initialize_episode_stats ==
    [moved_correct_obj |-> FALSE,
     moved_wrong_obj |-> FALSE,
     is_src_obj_grasped |-> FALSE,
     consecutive_grasp |-> FALSE,
     src_on_target |-> FALSE,
     source_intention |-> FALSE]

----------------------------------------------------------------------------
(* Episodes and worlds the model draws from *)

RobotLinks == {"left_finger", "right_finger"}

\* the scene of the spec's placement example: plate at the origin, half
\* extent (0.05, 0.05, 0.02); carrot half extent (0, 0, 0.01)
ExampleEpisode ==
    [objs |-> <<"carrot", "plate">>,
     source_obj_id |-> 1,
     target_obj_id |-> 2,
     settle |-> << <<120, 0, 10>>, <<0, 0, 0>> >>,
     src_bbox |-> <<0, 0, 20>>,
     tgt_bbox |-> <<100, 100, 40>>,
     robot_links |-> RobotLinks]

\* a target whose planar half extent (30, 40) has the integer norm 50
IntegerNormEpisode == [ExampleEpisode EXCEPT !.tgt_bbox = <<60, 80, 40>>]

TrackEpisodes == {ExampleEpisode}

PlaceEpisodes == {ExampleEpisode, IntegerNormEpisode}

\* end-effector relative to the source: at distance 0.05, and nearer
EEFar == <<0, 0, 50>>
EENear == <<30, 0, 39>>

\* (fingers, end effector offset)
IntentionCases ==
    {<< <<FALSE, FALSE>>, EEFar >>,
     << <<FALSE, TRUE>>, EEFar >>,
     << <<FALSE, FALSE>>, EENear >>}

MkWorld(ep, grasp, ic, src_p, contacts) ==
    [grasp |-> grasp,
     fingers |-> ic[1],
     ee_p |-> VAdd(src_p, ic[2]),
     obj_p |-> [ep.settle EXCEPT ![ep.source_obj_id] = src_p],
     contacts |-> contacts]

\* source where it settled, moved but off the target (beyond the planar bound
\* of either policy), on the target
TrackPositions == {<<120, 0, 10>>, <<85, 0, 10>>, <<0, 0, 45>>}

TrackWorlds(ep) ==
    {MkWorld(ep, g, ic, p, <<>>) :
        g \in BOOLEAN, ic \in IntentionCases, p \in TrackPositions}

Contact(a0, a1, points) == [actor0 |-> a0, actor1 |-> a1, points |-> points]

ContactCases ==
    {<<>>,
     <<Contact("carrot", "table", <<<<0, 0, 100>>>>)>>,
     <<Contact("table", "carrot", <<<<0, 0, 100>>>>)>>,
     <<Contact("carrot", "table", <<<<0, 0, 10>>>>)>>,
     <<Contact("carrot", "table", <<<<0, 0, 11>>>>)>>,
     <<Contact("carrot", "table", <<<<0, 6, 0>>, <<0, 6, 0>>>>)>>,
     <<Contact("carrot", "table", <<<<0, 0, 100>>, <<0, 0, -100>>>>)>>,
     <<Contact("carrot", "plate", <<<<0, 0, 100>>>>)>>,
     <<Contact("left_finger", "carrot", <<<<0, 100, 0>>>>)>>,
     <<Contact("table", "plate", <<<<0, 0, 100>>>>)>>,
     <<Contact("carrot", "plate", <<<<0, 0, 100>>>>),
       Contact("carrot", "table", <<<<0, 0, 100>>>>)>>}

PlaceXY == {<<0, 0>>, <<53, 0>>, <<54, 0>>, <<60, 0>>, <<61, 0>>, <<73, 0>>, <<74, 0>>}

PlaceZ == {0, 49, 50, 51}

PlaceWorlds(ep) ==
    {MkWorld(ep, FALSE, << <<FALSE, FALSE>>, EEFar >>, <<xy[1], xy[2], z>>, c) :
        xy \in PlaceXY, z \in PlaceZ, c \in ContactCases}

\* a scene with a distractor, as the tasks of PutOnBridgeInSceneEnvV1 have
DistractEpisode ==
    [objs |-> <<"carrot", "plate", "spoon">>,
     source_obj_id |-> 1,
     target_obj_id |-> 2,
     settle |-> << <<120, 0, 10>>, <<0, 0, 0>>, <<0, 150, 10>> >>,
     src_bbox |-> <<0, 0, 20>>,
     tgt_bbox |-> <<100, 100, 40>>,
     robot_links |-> RobotLinks]

\* planar displacements from the after-settle position: of the source
\* (norms 0, 0.03, 0.031, 0.04), of the target (0, 0.03, 0.04, 0.05) and of
\* a distractor (0, 0.031, 0.05)
SrcDisp == {<<0, 0>>, <<18, 24>>, <<0, 31>>, <<40, 0>>}
TgtDisp == {<<0, 0>>, <<18, 24>>, <<24, 32>>, <<50, 0>>}
DistractorDisp == {<<0, 0>>, <<0, 31>>, <<50, 0>>}

\* one displacement per object of the episode
Displacements(ep) ==
    {d \in [1..Len(ep.objs) -> SrcDisp \cup TgtDisp \cup DistractorDisp] :
        \A i \in 1..Len(ep.objs) :
            d[i] \in (IF i = ep.source_obj_id THEN SrcDisp
                      ELSE IF i = ep.target_obj_id THEN TgtDisp
                      ELSE DistractorDisp)}

\* every object pushed in the plane by its displacement; nothing held, the
\* gripper away from the source
MkMoveWorld(ep, d) ==
    [grasp |-> FALSE,
     fingers |-> <<FALSE, FALSE>>,
     ee_p |-> VAdd(ep.settle[ep.source_obj_id],
                   <<d[ep.source_obj_id][1], d[ep.source_obj_id][2], EEFar[3]>>),
     obj_p |-> [i \in 1..Len(ep.objs) |->
                  VAdd(ep.settle[i], <<d[i][1], d[i][2], 0>>)],
     contacts |-> <<>>]

MoveWorlds(ep) == {MkMoveWorld(ep, d) : d \in Displacements(ep)}

\* the evaluator of each class with a scene its tasks have
MoveTasks == {<<DefaultCls, DistractEpisode>>, <<InvertedCls, ExampleEpisode>>}

\* a table of n configs; each entry stands for one array of per-object values
MkConfigs(kind, n) == [i \in 1..n |-> <<kind, i - 1>>]

\* (number of position configs, number of orientation configs): the spec's
\* example and smaller tables
BridgeShapes == {<<12, 2>>, <<3, 2>>, <<2, 3>>, <<4, 1>>, <<1, 3>>, <<1, 1>>}

\* the episode ids a caller passes: those of the tables and a full cycle
\* below and above them
EpisodeIds(n_xy, n_quat) == (0 - n_xy * n_quat)..(2 * n_xy * n_quat - 1)

\* the options a caller passes to reset: the episode id alone, or with it
\* every key the reset assigns, set to values of the caller's own
CallerOptions(ids) ==
    {[obj_init_options |-> [episode_id |-> id]] : id \in ids}
    \cup {[model_ids |-> <<"caller_a", "caller_b", "caller_c">>,
           robot_init_options |-> "caller",
           obj_init_options |->
              [episode_id |-> id,
               source_obj_id |-> 1,
               target_obj_id |-> 0,
               init_xys |-> <<"caller", 0>>,
               init_rot_quats |-> <<"caller", 0>>]] : id \in ids}

\* reset(options=None), reset(options={}) and options without an episode id
CallerOptionsNoId ==
    {EmptyDict,
     [obj_init_options |-> EmptyDict],
     [model_ids |-> <<"caller_a", "caller_b", "caller_c">>,
      obj_init_options |-> [source_obj_id |-> 1, target_obj_id |-> 0]]}

\* the tables of the task: PutCarrotOnPlateInScene, which LangV4 extends,
\* builds 12 position and 2 orientation configs; PutOnInSceneEnv has none
TaskXYConfigs(c) == IF c = InvertedCls THEN MkConfigs("xy", 12) ELSE <<>>
TaskQuatConfigs(c) == IF c = InvertedCls THEN MkConfigs("quat", 2) ELSE <<>>

\* worlds of the two-instance runs: the source where it settled, held or not
TwoWorlds(ep) ==
    {MkWorld(ep, g, << <<FALSE, FALSE>>, EEFar >>, ep.settle[ep.source_obj_id], <<>>) :
        g \in BOOLEAN}

\* the attributes of a second instance after construction and its first reset
FreshPeer(c, ep, w) ==
    [cls |-> c,
     episode |-> ep,
     world |-> w,
     consecutive_grasp |-> 0,
     episode_stats |-> _initialize_episode_stats,
     ret |-> NoRet,
     args |-> NoArgs,
     grasp_hist |-> <<>>]

DefaultArgs == [require |-> TRUE, zoff |-> ZOffsetDefault]

TrackArgs == {DefaultArgs}

\* z_flag_required_offset=0.06 is what PutEggplantInBasketScene passes
PlaceArgs == [require : BOOLEAN, zoff : {ZOffsetDefault, 60}]

\* a call as the caller writes it: npos positional values and the keywords
\* kw; require and zoff are the values written for the two parameters, read
\* only where the call supplies them
Call(npos, kw, require, zoff) ==
    [error |-> FALSE, npos |-> npos, kw |-> kw, require |-> require, zoff |-> zoff]

\* the call has a value for the i-th positional parameter, called name
Supplies(c, i, name) == c.npos >= i \/ name \in c.kw

\* Python binds a call to the signature of PutOnInSceneEnv.evaluate:
\* (self, success_require_src_completely_on_target=True,
\*  z_flag_required_offset=0.02, **kwargs)
evaluate_bind(c) ==
    IF \/ c.error
       \/ c.npos > 2
       \/ c.npos >= 1 /\ RequireParam \in c.kw
       \/ c.npos >= 2 /\ ZOffsetParam \in c.kw
    THEN [error |-> TRUE]
    ELSE [error |-> FALSE,
          require |-> IF Supplies(c, 1, RequireParam) THEN c.require ELSE TRUE,
          zoff |-> IF Supplies(c, 2, ZOffsetParam) THEN c.zoff ELSE ZOffsetDefault]

\* faulty variant: the default of the base class is kept
spoon_evaluate_call_DefaultTrue(c) ==
    IF c.npos > 1 \/ (c.npos >= 1 /\ RequireParam \in c.kw)
    THEN [error |-> TRUE]
    ELSE Call(1, c.kw \ {RequireParam},
              IF Supplies(c, 1, RequireParam) THEN c.require ELSE TRUE,
              c.zoff)

\* PutSpoonOnTableClothInScene.evaluate(self,
\* success_require_src_completely_on_target=False, **kwargs): the call it
\* makes on super().evaluate, the flag passed positionally
spoon_evaluate_call(c) ==
    IF c.npos > 1 \/ (c.npos >= 1 /\ RequireParam \in c.kw)
    THEN [error |-> TRUE]
    ELSE Call(1, c.kw \ {RequireParam},
              IF Supplies(c, 1, RequireParam) THEN c.require ELSE FALSE,
              c.zoff)

\* faulty variant: the settings are defaults that the caller's keywords replace
eggplant_evaluate_call_CallerWins(c) ==
    Call(c.npos, c.kw \cup {RequireParam, ZOffsetParam},
         IF RequireParam \in c.kw THEN c.require ELSE FALSE,
         IF ZOffsetParam \in c.kw THEN c.zoff ELSE ZOffsetEggplant)

\* PutEggplantInBasketScene.evaluate(self, *args, **kwargs): the call it makes
\* on super().evaluate, both parameters as keywords next to *args, **kwargs;
\* a keyword given twice is a TypeError of the call itself
eggplant_evaluate_call(c) ==
    IF RequireParam \in c.kw \/ ZOffsetParam \in c.kw
    THEN [error |-> TRUE]
    ELSE Call(c.npos, c.kw \cup {RequireParam, ZOffsetParam}, FALSE, ZOffsetEggplant)

\* faulty variant: the distractor tasks extend PutSpoonOnTableClothInScene
class_evaluate_call_Relaxed(cl, c) ==
    IF cl \in {SpoonCls, SpoonDistractCls, SpoonLangV2Cls} THEN spoon_evaluate_call(c)
    ELSE IF cl = EggplantCls THEN eggplant_evaluate_call(c)
    ELSE c

\* the call that reaches PutOnInSceneEnv.evaluate when c is made on an instance
\* of class cl: PutSpoonOnTableClothInSceneDistract and
\* PutSpoonOnTableClothInSceneLangV2 extend PutOnBridgeInSceneEnvV1, which
\* defines no evaluate, and inherit it as it is
class_evaluate_call(cl, c) ==
    IF cl = SpoonCls THEN spoon_evaluate_call(c)
    ELSE IF cl = EggplantCls THEN eggplant_evaluate_call(c)
    ELSE c

\* the calls of a caller: no argument, each parameter by keyword, by
\* position, both ways at once, and a keyword evaluate does not know
PolicyCalls ==
    {Call(0, {}, TRUE, ZOffsetDefault),
     Call(0, {RequireParam}, TRUE, ZOffsetDefault),
     Call(0, {RequireParam}, FALSE, ZOffsetDefault),
     Call(0, {ZOffsetParam}, TRUE, ZOffsetEggplant),
     Call(0, {RequireParam, ZOffsetParam}, TRUE, ZOffsetEggplant),
     Call(1, {}, TRUE, ZOffsetDefault),
     Call(1, {}, FALSE, ZOffsetDefault),
     Call(1, {ZOffsetParam}, TRUE, ZOffsetEggplant),
     Call(2, {}, TRUE, ZOffsetEggplant),
     Call(1, {RequireParam}, TRUE, ZOffsetDefault),
     Call(0, {"verbose"}, TRUE, ZOffsetDefault)}

\* worlds of the policy runs, the source over the target: inside (0, 0.073)
\* and outside (0.074) the planar bound; resting (vertical offset 0.015),
\* raised within 0.06 only (0.055) and above it (0.065); touching nothing, the
\* table, or the target; held or not
PolicyWorlds(ep) ==
    {MkWorld(ep, g, << <<FALSE, FALSE>>, EEFar >>, <<xy[1], xy[2], z>>, c) :
        g \in BOOLEAN,
        xy \in {<<0, 0>>, <<73, 0>>, <<74, 0>>},
        z \in {45, 85, 95},
        c \in {<<>>,
               <<Contact("carrot", "table", <<<<0, 0, 100>>>>)>>,
               <<Contact("carrot", "plate", <<<<0, 0, 100>>>>)>>}}

\* worlds of the paired runs, the source on the target, inside the planar
\* bound of the default policy only with its tolerance, inside the bound of
\* the inverted policy only, raised within 0.06 only, and beside the target;
\* touching nothing or the table; held or not
PairWorlds(ep) ==
    {MkWorld(ep, g, << <<FALSE, FALSE>>, EEFar >>, p, c) :
        g \in BOOLEAN,
        p \in {<<0, 0, 45>>, <<73, 0, 45>>, <<74, 0, 45>>, <<0, 0, 85>>, <<85, 0, 10>>},
        c \in {<<>>, <<Contact("carrot", "table", <<<<0, 0, 100>>>>)>>}}

\* what an episode went through before the paired call: nothing, or four
\* calls with the source held on the target or beside it
PairHistories(ep) ==
    {<<0, MkWorld(ep, TRUE, << <<FALSE, FALSE>>, EEFar >>, <<0, 0, 45>>, <<>>)>>,
     <<GraspThreshold - 1,
       MkWorld(ep, TRUE, << <<FALSE, FALSE>>, EEFar >>, <<0, 0, 45>>, <<>>)>>,
     <<GraspThreshold - 1,
       MkWorld(ep, TRUE, << <<FALSE, FALSE>>, EEFar >>, <<85, 0, 10>>, <<>>)>>}

----------------------------------------------------------------------------
(* Operations *)

\* the environment: one simulation step replaces the world
Step(W) ==
    /\ last_op # "step"
    /\ \E w \in W : world' = w
    /\ ret' = NoRet
    /\ args' = NoArgs
    /\ last_op' = "step"
    /\ prev' = NoPrev
    /\ UNCHANGED <<cls, episode, consecutive_grasp, episode_stats, grasp_hist>>
    /\ UNCHANGED <<_xy_configs, _quat_configs, options, info, stats_obj, held, peer>>

\* PutOnInSceneEnv.evaluate(success_require_src_completely_on_target, z_flag_required_offset)
evaluate(A) ==
    /\ cls = DefaultCls
    /\ Len(grasp_hist) < MaxCalls
    /\ \E a \in A :
        LET out == evaluate_out(world, episode, consecutive_grasp, episode_stats,
                                a.require, a.zoff)
        IN  /\ consecutive_grasp' = out.consecutive_grasp
            /\ episode_stats' = out.episode_stats
            /\ ret' = ReturnedDict(out.ret, stats_obj)
            /\ held' = HeldAfterEvaluate(held, stats_obj, out.episode_stats)
            /\ args' = a
    /\ grasp_hist' = Append(grasp_hist, world.grasp)
    /\ last_op' = "evaluate"
    /\ prev' = NoPrev
    /\ UNCHANGED <<cls, episode, world>>
    /\ UNCHANGED <<_xy_configs, _quat_configs, options, info, stats_obj, peer>>

\* faulty variant: the after-settle reference of the source follows its pose
evaluate_inverted_MovesReference(A) ==
    /\ cls = InvertedCls
    /\ Len(grasp_hist) < MaxCalls
    /\ \E a \in A :
        LET out == evaluate_inverted_out(world, episode, consecutive_grasp,
                                         episode_stats, a.require, a.zoff)
        IN  /\ consecutive_grasp' = out.consecutive_grasp
            /\ episode_stats' = out.episode_stats
            /\ ret' = ReturnedDict(out.ret, stats_obj)
            /\ held' = HeldAfterEvaluate(held, stats_obj, out.episode_stats)
            /\ args' = a
    /\ episode' = [episode EXCEPT !.settle[episode.source_obj_id] =
                                      source_obj_pose_p(world, episode)]
    /\ grasp_hist' = Append(grasp_hist, world.grasp)
    /\ last_op' = "evaluate"
    /\ prev' = NoPrev
    /\ UNCHANGED <<cls, world>>
    /\ UNCHANGED <<_xy_configs, _quat_configs, options, info, stats_obj, peer>>

\* PutCarrotOnPlateInSceneLangV4.evaluate
evaluate_inverted(A) ==
    /\ cls = InvertedCls
    /\ Len(grasp_hist) < MaxCalls
    /\ \E a \in A :
        LET out == evaluate_inverted_out(world, episode, consecutive_grasp,
                                         episode_stats, a.require, a.zoff)
        IN  /\ consecutive_grasp' = out.consecutive_grasp
            /\ episode_stats' = out.episode_stats
            /\ ret' = ReturnedDict(out.ret, stats_obj)
            /\ held' = HeldAfterEvaluate(held, stats_obj, out.episode_stats)
            /\ args' = a
    /\ grasp_hist' = Append(grasp_hist, world.grasp)
    /\ last_op' = "evaluate"
    /\ prev' = NoPrev
    /\ UNCHANGED <<cls, episode, world>>
    /\ UNCHANGED <<_xy_configs, _quat_configs, options, info, stats_obj, peer>>

\* a call c on evaluate that Python bound as b: a TypeError raised before the
\* body runs, or the body of PutOnInSceneEnv.evaluate on the bound arguments
evaluate_called(c, b) ==
    /\ Len(grasp_hist) < MaxCalls
    /\ IF b.error
       THEN /\ ret' = TypeError
            /\ args' = [call |-> c]
            /\ last_op' = "evaluate_error"
            /\ UNCHANGED <<consecutive_grasp, episode_stats, held, grasp_hist>>
       ELSE LET out == evaluate_out(world, episode, consecutive_grasp, episode_stats,
                                    b.require, b.zoff)
            IN  /\ consecutive_grasp' = out.consecutive_grasp
                /\ episode_stats' = out.episode_stats
                /\ ret' = ReturnedDict(out.ret, stats_obj)
                /\ held' = HeldAfterEvaluate(held, stats_obj, out.episode_stats)
                /\ args' = [require |-> b.require, zoff |-> b.zoff, call |-> c]
                /\ grasp_hist' = Append(grasp_hist, world.grasp)
                /\ last_op' = "evaluate"
    /\ prev' = NoPrev
    /\ UNCHANGED <<cls, episode, world>>
    /\ UNCHANGED <<_xy_configs, _quat_configs, options, info, stats_obj, peer>>

\* evaluate called on an instance of one of the policy classes
evaluate_policy(C) ==
    /\ cls \in PolicyClasses
    /\ \E c \in C : \E b \in {evaluate_bind(class_evaluate_call(cls, c))} :
          evaluate_called(c, b)

\* the caller keeps the dict the last evaluate call returned
keep_result ==
    /\ last_op = "evaluate"
    /\ held' = [obj |-> ret.episode_stats,
                at_call |-> episode_stats,
                content |-> episode_stats]
    /\ last_op' = "keep"
    /\ UNCHANGED <<self_vars, peer>>

\* the worlds a freshly reset episode can show: every object where it settled, nothing held
ResetWorlds(ep, W) == {w \in W : w.obj_p = ep.settle /\ ~w.grasp}

\* super().reset(*args, **kwargs): builds the episode and initializes its stats
super_reset(E) ==
    /\ episode_stats' = _initialize_episode_stats
    /\ stats_obj' = NewStatsObj(held)
    /\ \E ep \in E :
        /\ episode' = ep
        /\ world' \in ResetWorlds(ep, TrackWorlds(ep))

\* faulty variant: self.consecutive_grasp = 0 is missing
reset_KeepsCounter(E) ==
    /\ last_op # "reset"
    /\ super_reset(E)
    /\ ret' = NoRet
    /\ args' = NoArgs
    /\ grasp_hist' = <<>>
    /\ last_op' = "reset"
    /\ prev' = [consecutive_grasp |-> consecutive_grasp,
                episode_stats |-> episode_stats]
    /\ UNCHANGED <<cls, consecutive_grasp>>
    /\ UNCHANGED <<_xy_configs, _quat_configs, options, info, held, peer>>

\* PutOnInSceneEnv.reset
reset(E) ==
    /\ last_op # "reset"
    /\ consecutive_grasp' = 0
    /\ super_reset(E)
    /\ ret' = NoRet
    /\ args' = NoArgs
    /\ grasp_hist' = <<>>
    /\ last_op' = "reset"
    /\ prev' = [consecutive_grasp |-> consecutive_grasp,
                episode_stats |-> episode_stats]
    /\ UNCHANGED cls
    /\ UNCHANGED <<_xy_configs, _quat_configs, options, info, held, peer>>

\* PutOnBridgeInSceneEnv.reset(seed, options): the caller's options, and the
\* value randint(N) would return
bridge_reset ==
    /\ cls = BridgeCls
    /\ \E caller \in CallerOptions(EpisodeIds(Len(_xy_configs), Len(_quat_configs)))
                        \cup CallerOptionsNoId :
          \E episode_id \in ChosenEpisodeIds(caller, Len(_xy_configs) * Len(_quat_configs)) :
          /\ options' = BridgeOptions(caller, episode_id,
                                      <<_source_obj_name, _target_obj_name>>,
                                      _xy_configs, _quat_configs)
          /\ info' = [episode_id |-> episode_id]
          /\ args' = [options |-> caller]
    /\ consecutive_grasp' = 0
    /\ super_reset({ExampleEpisode})
    /\ ret' = NoRet
    /\ grasp_hist' = <<>>
    /\ last_op' = "reset"
    /\ prev' = [consecutive_grasp |-> consecutive_grasp,
                episode_stats |-> episode_stats]
    /\ UNCHANGED <<cls, _xy_configs, _quat_configs, held, peer>>

\* PutOnBridgeInSceneEnvV1.reset
bridge_reset_V1 ==
    /\ cls = BridgeV1Cls
    /\ \E caller \in CallerOptions(EpisodeIds(Len(_xy_configs), Len(_quat_configs)))
                        \cup CallerOptionsNoId :
          \E episode_id \in ChosenEpisodeIds(caller, Len(_xy_configs) * Len(_quat_configs)) :
          /\ options' = BridgeOptions(caller, episode_id,
                                      <<_source_obj_name, _target_obj_name>>
                                          \o _other_obj_names,
                                      _xy_configs, _quat_configs)
          /\ info' = [episode_id |-> episode_id]
          /\ args' = [options |-> caller]
    /\ consecutive_grasp' = 0
    /\ super_reset({DistractEpisode})
    /\ ret' = NoRet
    /\ grasp_hist' = <<>>
    /\ last_op' = "reset"
    /\ prev' = [consecutive_grasp |-> consecutive_grasp,
                episode_stats |-> episode_stats]
    /\ UNCHANGED <<cls, _xy_configs, _quat_configs, held, peer>>

\* the evaluate method of class c
evaluate_of(c, w, ep, cg, stats, require, zoff) ==
    IF c = InvertedCls THEN evaluate_inverted_out(w, ep, cg, stats, require, zoff)
    ELSE evaluate_out(w, ep, cg, stats, require, zoff)

\* the counter, stats and grasp history of an instance of class c after reset
\* and n calls of evaluate() on the world w (a set of one element)
RECURSIVE TrackersAfter(_, _, _, _)
TrackersAfter(c, w, ep, n) ==
    IF n = 0
    THEN {[consecutive_grasp |-> 0,
           episode_stats |-> _initialize_episode_stats,
           grasp_hist |-> <<>>]}
    ELSE {[consecutive_grasp |-> r[2].consecutive_grasp,
           episode_stats |-> r[2].episode_stats,
           grasp_hist |-> Append(r[1].grasp_hist, w.grasp)] :
             r \in {<<t, evaluate_of(c, w, ep, t.consecutive_grasp, t.episode_stats,
                                     DefaultArgs.require, DefaultArgs.zoff)>> :
                       t \in TrackersAfter(c, w, ep, n - 1)}}

\* one simulation step of the second instance's scene
peer_Step(W) ==
    /\ peer # NoPeer
    /\ last_op # "peer_step"
    /\ \E w \in W : peer' = [peer EXCEPT !.world = w, !.ret = NoRet, !.args = NoArgs]
    /\ last_op' = "peer_step"
    /\ UNCHANGED <<self_vars, held>>

\* faulty variant: consecutive_grasp is an attribute of the class, one counter
\* for all instances
peer_evaluate_SharedCounter(A) ==
    /\ peer # NoPeer
    /\ Len(peer.grasp_hist) < MaxCalls
    /\ \E a \in A :
        LET out == evaluate_of(peer.cls, peer.world, peer.episode,
                               consecutive_grasp, peer.episode_stats,
                               a.require, a.zoff)
        IN  /\ peer' = [peer EXCEPT
                           !.consecutive_grasp = out.consecutive_grasp,
                           !.episode_stats = out.episode_stats,
                           !.ret = out.ret,
                           !.args = a,
                           !.grasp_hist = Append(peer.grasp_hist, peer.world.grasp)]
            /\ consecutive_grasp' = out.consecutive_grasp
    /\ last_op' = "peer_evaluate"
    /\ UNCHANGED <<cls, episode, world, episode_stats, ret, args, grasp_hist, prev,
                   _xy_configs, _quat_configs, options, info, stats_obj, held>>

\* evaluate called on the second instance: self is that instance
peer_evaluate(A) ==
    /\ peer # NoPeer
    /\ Len(peer.grasp_hist) < MaxCalls
    /\ \E a \in A :
        LET out == evaluate_of(peer.cls, peer.world, peer.episode,
                               peer.consecutive_grasp, peer.episode_stats,
                               a.require, a.zoff)
        IN  peer' = [peer EXCEPT
                        !.consecutive_grasp = out.consecutive_grasp,
                        !.episode_stats = out.episode_stats,
                        !.ret = out.ret,
                        !.args = a,
                        !.grasp_hist = Append(peer.grasp_hist, peer.world.grasp)]
    /\ last_op' = "peer_evaluate"
    /\ UNCHANGED <<self_vars, held>>

\* reset called on the second instance
peer_reset(W) ==
    /\ peer # NoPeer
    /\ last_op # "peer_reset"
    /\ \E w \in ResetWorlds(peer.episode, W) :
          peer' = FreshPeer(peer.cls, peer.episode, w)
    /\ last_op' = "peer_reset"
    /\ UNCHANGED <<self_vars, held>>

----------------------------------------------------------------------------
(* Specifications *)

\* an environment instance after construction and its first reset
Init ==
    /\ cls \in Classes
    /\ episode \in TrackEpisodes
    /\ world \in ResetWorlds(episode, TrackWorlds(episode))
    /\ consecutive_grasp = 0
    /\ episode_stats = _initialize_episode_stats
    /\ ret = NoRet
    /\ args = NoArgs
    /\ grasp_hist = <<>>
    /\ last_op = "reset"
    /\ prev = NoPrev
    /\ _xy_configs = TaskXYConfigs(cls)
    /\ _quat_configs = TaskQuatConfigs(cls)
    /\ options = NoOptions
    /\ info = NoInfo
    /\ stats_obj = 1
    /\ held = NoHeld
    /\ peer = NoPeer

Next ==
    \/ Step(TrackWorlds(episode))
    \/ evaluate(TrackArgs)
    \/ evaluate_inverted(TrackArgs)
    \/ reset(TrackEpisodes)

Spec == Init /\ [][Next]_vars

\* the evaluators as functions of the world: every placement and contact case,
\* every argument combination, evaluated from a fresh tracker
InitPlace ==
    /\ cls \in Classes
    /\ episode \in PlaceEpisodes
    /\ world \in PlaceWorlds(episode)
    /\ consecutive_grasp = 0
    /\ episode_stats = _initialize_episode_stats
    /\ ret = NoRet
    /\ args = NoArgs
    /\ grasp_hist = <<>>
    /\ last_op = "step"
    /\ prev = NoPrev
    /\ _xy_configs = TaskXYConfigs(cls)
    /\ _quat_configs = TaskQuatConfigs(cls)
    /\ options = NoOptions
    /\ info = NoInfo
    /\ stats_obj = 1
    /\ held = NoHeld
    /\ peer = NoPeer

\* one call on each world
NextPlace ==
    \/ last_op = "step" /\ evaluate(PlaceArgs)
    \/ last_op = "step" /\ evaluate_inverted(PlaceArgs)

SpecPlace == InitPlace /\ [][NextPlace]_vars

\* objects pushed around between calls, the caller keeping results
InitMove ==
    /\ \E t \in MoveTasks : cls = t[1] /\ episode = t[2]
    /\ world \in ResetWorlds(episode, TrackWorlds(episode))
    /\ consecutive_grasp = 0
    /\ episode_stats = _initialize_episode_stats
    /\ ret = NoRet
    /\ args = NoArgs
    /\ grasp_hist = <<>>
    /\ last_op = "reset"
    /\ prev = NoPrev
    /\ _xy_configs = TaskXYConfigs(cls)
    /\ _quat_configs = TaskQuatConfigs(cls)
    /\ options = NoOptions
    /\ info = NoInfo
    /\ stats_obj = 1
    /\ held = NoHeld
    /\ peer = NoPeer

NextMove ==
    \/ Step(MoveWorlds(episode))
    \/ Len(grasp_hist) < MaxMoveCalls /\ evaluate(TrackArgs)
    \/ Len(grasp_hist) < MaxMoveCalls /\ evaluate_inverted(TrackArgs)
    \/ keep_result
    \/ reset({episode})

SpecMove == InitMove /\ [][NextMove]_vars

\* two instances, each with its own scene
InitTwo ==
    /\ cls \in Classes
    /\ episode = ExampleEpisode
    /\ world \in ResetWorlds(episode, TwoWorlds(episode))
    /\ consecutive_grasp = 0
    /\ episode_stats = _initialize_episode_stats
    /\ ret = NoRet
    /\ args = NoArgs
    /\ grasp_hist = <<>>
    /\ last_op = "reset"
    /\ prev = NoPrev
    /\ _xy_configs = TaskXYConfigs(cls)
    /\ _quat_configs = TaskQuatConfigs(cls)
    /\ options = NoOptions
    /\ info = NoInfo
    /\ stats_obj = 1
    /\ held = NoHeld
    /\ \E c \in Classes, w \in ResetWorlds(ExampleEpisode, TwoWorlds(ExampleEpisode)) :
          peer = FreshPeer(c, ExampleEpisode, w)

NextTwo ==
    \/ Step(TwoWorlds(episode))
    \/ Len(grasp_hist) < MaxTwoCalls /\ evaluate(TrackArgs)
    \/ Len(grasp_hist) < MaxTwoCalls /\ evaluate_inverted(TrackArgs)
    \/ reset({episode})
    \/ peer_Step(TwoWorlds(peer.episode))
    \/ Len(peer.grasp_hist) < MaxTwoCalls /\ peer_evaluate(TrackArgs)
    \/ peer_reset(TwoWorlds(peer.episode))

SpecTwo == InitTwo /\ [][NextTwo]_vars

\* the tasks that differ in how calls reach PutOnInSceneEnv.evaluate, each on
\* the same worlds, from a fresh tracker
InitPolicy ==
    /\ cls \in PolicyClasses
    /\ episode = ExampleEpisode
    /\ world \in PolicyWorlds(episode)
    /\ consecutive_grasp = 0
    /\ episode_stats = _initialize_episode_stats
    /\ ret = NoRet
    /\ args = NoArgs
    /\ grasp_hist = <<>>
    /\ last_op = "step"
    /\ prev = NoPrev
    /\ _xy_configs = <<>>
    /\ _quat_configs = <<>>
    /\ options = NoOptions
    /\ info = NoInfo
    /\ stats_obj = 1
    /\ held = NoHeld
    /\ peer = NoPeer

\* one call on each world
NextPolicy == last_op = "step" /\ evaluate_policy(PolicyCalls)

SpecPolicy == InitPolicy /\ [][NextPolicy]_vars

\* two instances, each with a history of its own, in front of the same world
InitPair ==
    /\ cls = DefaultCls
    /\ episode = ExampleEpisode
    /\ world \in PairWorlds(episode)
    /\ ret = NoRet
    /\ args = NoArgs
    /\ last_op = "step"
    /\ prev = NoPrev
    /\ _xy_configs = TaskXYConfigs(cls)
    /\ _quat_configs = TaskQuatConfigs(cls)
    /\ options = NoOptions
    /\ info = NoInfo
    /\ stats_obj = 1
    /\ held = NoHeld
    /\ \E trackers \in {[c \in Classes |->
                              UNION {TrackersAfter(c, h[2], ExampleEpisode, h[1]) :
                                        h \in PairHistories(ExampleEpisode)}]} :
          /\ \E t \in trackers[DefaultCls] :
                /\ consecutive_grasp = t.consecutive_grasp
                /\ episode_stats = t.episode_stats
                /\ grasp_hist = t.grasp_hist
          /\ \E c \in Classes : \E t \in trackers[c] :
                peer = [FreshPeer(c, ExampleEpisode, world) EXCEPT
                           !.consecutive_grasp = t.consecutive_grasp,
                           !.episode_stats = t.episode_stats,
                           !.grasp_hist = t.grasp_hist]

\* one call of each instance on the world
NextPair ==
    \/ ret = NoRet /\ evaluate(PlaceArgs)
    \/ peer.ret = NoRet /\ peer_evaluate(PlaceArgs)

SpecPair == InitPair /\ [][NextPair]_vars

\* a bridge environment after construction: the tables are set, no episode
\* id has been chosen yet
InitBridge ==
    /\ \E shape \in BridgeShapes :
        /\ _xy_configs = MkConfigs("xy", shape[1])
        /\ _quat_configs = MkConfigs("quat", shape[2])
    /\ \/ cls = BridgeCls /\ episode = ExampleEpisode
       \/ cls = BridgeV1Cls /\ episode = DistractEpisode
    /\ world \in ResetWorlds(episode, TrackWorlds(episode))
    /\ consecutive_grasp = 0
    /\ episode_stats = _initialize_episode_stats
    /\ ret = NoRet
    /\ args = NoArgs
    /\ grasp_hist = <<>>
    /\ last_op = "init"
    /\ prev = NoPrev
    /\ options = NoOptions
    /\ info = NoInfo
    /\ stats_obj = 1
    /\ held = NoHeld
    /\ peer = NoPeer

NextBridge ==
    \/ bridge_reset
    \/ bridge_reset_V1

SpecBridge == InitBridge /\ [][NextBridge]_vars

----------------------------------------------------------------------------
(* Claims *)

\* number of TRUE entries at the end of h
RECURSIVE TrailingTrue(_)
TrailingTrue(h) ==
    IF h = <<>> THEN 0
    ELSE IF h[Len(h)] THEN 1 + TrailingTrue(SubSeq(h, 1, Len(h) - 1))
    ELSE 0

\* C1: every evaluate call adds exactly 1 to the grasp counter when the source
\* is reported grasped and sets it to 0 otherwise, and returns consecutive_grasp
\* true iff the updated counter is >= 5; so the counter is never negative and is
\* the number of consecutive grasp-true calls ending at the latest call.
C1_GraspCounter ==
    /\ [][last_op' = "evaluate" =>
            /\ consecutive_grasp' = (IF world.grasp THEN consecutive_grasp + 1 ELSE 0)
            /\ ret'.consecutive_grasp <=> (consecutive_grasp' >= 5)]_vars
    /\ [](consecutive_grasp >= 0 /\ consecutive_grasp = TrailingTrue(grasp_hist))

\* six calls, the first not grasped, the other five grasped
C1_Witness ==
    /\ last_op = "evaluate"
    /\ Len(grasp_hist) = 6
    /\ ~grasp_hist[1]
    /\ consecutive_grasp = 5
    /\ ret.consecutive_grasp

StickyFields == {"is_src_obj_grasped", "consecutive_grasp", "source_intention"}

\* C2: within an episode the accumulated fields is_src_obj_grasped,
\* consecutive_grasp and source_intention never go from true to false, in either
\* evaluator; only reset returns them to false.
C2_StickyFlags ==
    [][\A f \in StickyFields :
          (episode_stats[f] /\ ~episode_stats'[f]) => last_op' = "reset"]_vars

\* the inverted evaluator has just run on a world with no grasp and no
\* intention, and all three accumulated fields are still true
C2_Witness ==
    /\ last_op = "evaluate"
    /\ cls = InvertedCls
    /\ ~ret.is_src_obj_grasped
    /\ ~ret.consecutive_grasp
    /\ ~source_intention_now(world, episode)
    /\ \A f \in StickyFields : episode_stats[f]

\* the counter was >= 5 after some evaluate call since the last reset
CounterReachedFive(h) ==
    \E i \in 1..Len(h) : TrailingTrue(SubSeq(h, 1, i)) >= 5

\* C3: the accumulated flag consecutive_grasp is true iff the grasp counter was
\* >= 5 after at least one evaluate call since the last reset: it turns true on
\* the fifth grasp-true call in a row and not before.
C3_ConsecutiveFlag ==
    episode_stats.consecutive_grasp <=> CounterReachedFive(grasp_hist)

\* five grasped calls in a row, then a release: the flag stays, the counter is 0
C3_Witness ==
    /\ last_op = "evaluate"
    /\ Len(grasp_hist) = 6
    /\ consecutive_grasp = 0
    /\ episode_stats.consecutive_grasp

StatsFields ==
    {"moved_correct_obj", "moved_wrong_obj", "is_src_obj_grasped",
     "consecutive_grasp", "src_on_target", "source_intention"}

\* C4: reset, from any prior state, leaves the grasp counter at 0 and every
\* episode-stats field false.
C4_ResetClears ==
    last_op = "reset" =>
        /\ consecutive_grasp = 0
        /\ DOMAIN episode_stats = StatsFields
        /\ \A f \in StatsFields : episode_stats[f] = FALSE

\* a reset that overwrote a running grasp count and true stats fields
C4_Witness ==
    /\ last_op = "reset"
    /\ prev # NoPrev
    /\ prev.consecutive_grasp >= 5
    /\ prev.episode_stats.is_src_obj_grasped
    /\ prev.episode_stats.consecutive_grasp
    /\ prev.episode_stats.source_intention
    /\ prev.episode_stats.moved_correct_obj
    /\ prev.episode_stats.src_on_target

\* C5: under the default policy the success returned by an evaluate call equals
\* the src_on_target returned by that call (after the contact refinement).
C5_DefaultSuccess ==
    (last_op = "evaluate" /\ cls = DefaultCls) => (ret.success = ret.src_on_target)

\* both geometric flags hold and the refinement, enabled, removed the placement
C5_Witness ==
    /\ last_op = "evaluate"
    /\ cls = DefaultCls
    /\ args.require
    /\ xy_flag(world, episode, 3)
    /\ z_flag(world, episode, args.zoff)
    /\ ~contact_flag(world, episode)
    /\ ~ret.src_on_target
    /\ ~ret.success

\* C6: under the inverted policy success = (NOT src_on_target) AND
\* moved_correct_obj AND consecutive_grasp of the same call; success is false
\* whenever src_on_target is true.
C6_InvertedSuccess ==
    (last_op = "evaluate" /\ cls = InvertedCls) =>
        /\ ret.success =
              ((~ret.src_on_target) /\ ret.moved_correct_obj /\ ret.consecutive_grasp)
        /\ ret.src_on_target => ~ret.success

\* on the target, moved, held for five calls: no success
C6_Witness ==
    /\ last_op = "evaluate"
    /\ cls = InvertedCls
    /\ ret.src_on_target
    /\ ret.moved_correct_obj
    /\ ret.consecutive_grasp
    /\ ~ret.success

\* a body that is neither the source, the target nor a robot link
ThirdBody(name, ep) ==
    /\ name # ep.objs[ep.source_obj_id]
    /\ name # ep.objs[ep.target_obj_id]
    /\ name \notin ep.robot_links

\* the contact is between the source and the body `other`
Between(c, ep, other) ==
    \/ c.actor0 = ep.objs[ep.source_obj_id] /\ c.actor1 = other
    \/ c.actor1 = ep.objs[ep.source_obj_id] /\ c.actor0 = other

\* squared magnitude of the summed impulse of the contact, (1e-7)^2 units
ImpulseSq(c) == Norm3Sq(contact_impulse(c.points))

\* some contact of the step is between the source and a third body, above 1e-6
ThirdBodyContact(w, ep) ==
    \E k \in 1..Len(w.contacts) :
        /\ \E other \in {w.contacts[k].actor0, w.contacts[k].actor1} :
              ThirdBody(other, ep) /\ Between(w.contacts[k], ep, other)
        /\ ImpulseSq(w.contacts[k]) > 100

\* C7: with the refinement required (default policy), a contact between the
\* source and a body that is neither the target nor a robot link, with summed
\* impulse magnitude above 1e-6, makes src_on_target and success false, also
\* when xy_flag and z_flag are both true.
C7_ThirdBodyContact ==
    (last_op = "evaluate" /\ cls = DefaultCls /\ args.require
        /\ ThirdBodyContact(world, episode))
    => (~ret.src_on_target /\ ~ret.success)

\* both flags true, the third body is actor0 and the source actor1
C7_Witness ==
    /\ last_op = "evaluate"
    /\ cls = DefaultCls
    /\ args.require
    /\ xy_flag(world, episode, 3)
    /\ z_flag(world, episode, args.zoff)
    /\ \E k \in 1..Len(world.contacts) :
          /\ world.contacts[k].actor0 = "table"
          /\ world.contacts[k].actor1 = "carrot"
          /\ ImpulseSq(world.contacts[k]) > 100
    /\ ~ret.src_on_target

\* every contact involving the source is with the target, with a robot link,
\* or has summed impulse magnitude <= 1e-6
SourceContactsBenign(w, ep) ==
    \A k \in 1..Len(w.contacts) :
        \A other \in {w.contacts[k].actor0, w.contacts[k].actor1} :
            Between(w.contacts[k], ep, other) =>
                \/ other = ep.objs[ep.target_obj_id]
                \/ other \in ep.robot_links
                \/ ImpulseSq(w.contacts[k]) <= 100

\* C8: in the default evaluator src_on_target = xy_flag AND z_flag whenever the
\* refinement is not required, or it is and every contact involving the source
\* is with the target, a robot link, or has impulse <= 1e-6; the refinement
\* never turns src_on_target from false to true.
C8_RefinementOnly ==
    (last_op = "evaluate" /\ cls = DefaultCls) =>
        /\ (~args.require \/ SourceContactsBenign(world, episode)) =>
              (ret.src_on_target =
                  (xy_flag(world, episode, 3) /\ z_flag(world, episode, args.zoff)))
        /\ ret.src_on_target =>
              (xy_flag(world, episode, 3) /\ z_flag(world, episode, args.zoff))

\* refinement required, the source touches the table with exactly 1e-6, and
\* the placement stands
C8_Witness ==
    /\ last_op = "evaluate"
    /\ cls = DefaultCls
    /\ args.require
    /\ \E k \in 1..Len(world.contacts) :
          /\ Between(world.contacts[k], episode, "table")
          /\ ImpulseSq(world.contacts[k]) = 100
    /\ ret.src_on_target

\* the call of the spec's placement example: offset (0, 0, 0.05), target half
\* extent (0.05, 0.05, 0.02), source half extent (0, 0, 0.01), tolerance 0.02,
\* no disqualifying contact
PlacementExample ==
    /\ last_op = "evaluate"
    /\ cls = DefaultCls
    /\ episode = ExampleEpisode
    /\ world.obj_p[1] = <<0, 0, 50>>
    /\ world.obj_p[2] = <<0, 0, 0>>
    /\ args.zoff = 20
    /\ world.contacts = <<>>

\* C9: the placement verdict is xy_flag AND z_flag with z_flag true when
\* offset.z - targetHalfExtent.z - sourceHalfExtent.z equals the tolerance; in
\* the example (0.05 - 0.02 - 0.01 <= 0.02) src_on_target is true.
C9_ExamplePlaced == PlacementExample => ret.src_on_target

\* C10: after every evaluate call, in every task variant, episode_stats
\* src_on_target equals the src_on_target returned by that call.
C10_StatsSrcOnTarget ==
    last_op = "evaluate" => (episode_stats.src_on_target = ret.src_on_target)

\* squared planar displacement of object i from where it settled
Disp2(w, ep, i) ==
    (ep.settle[i][1] - w.obj_p[i][1]) * (ep.settle[i][1] - w.obj_p[i][1])
    + (ep.settle[i][2] - w.obj_p[i][2]) * (ep.settle[i][2] - w.obj_p[i][2])

\* the objects of the scene other than the source
Others(ep) == (1..Len(ep.objs)) \ {ep.source_obj_id}

\* C11 as stated: some input of a single evaluate call makes moved_correct_obj
\* and moved_wrong_obj both true, and some input makes both false.
C11_NotExclusive ==
    /\ \E w \in MoveWorlds(episode) :
          moved_correct_obj(w, episode) /\ moved_wrong_obj(w, episode)
    /\ \E w \in MoveWorlds(episode) :
          ~moved_correct_obj(w, episode) /\ ~moved_wrong_obj(w, episode)

\* C11 amended: no evaluate call returns moved_correct_obj and moved_wrong_obj
\* both true; there are inputs for which both are false.
C11_NeverBothTrue ==
    /\ last_op = "evaluate" => ~(ret.moved_correct_obj /\ ret.moved_wrong_obj)
    /\ \E w \in MoveWorlds(episode) :
          ~moved_correct_obj(w, episode) /\ ~moved_wrong_obj(w, episode)

\* the source moved 0.04, one other object less and another more: wrong, not
\* correct
C11_Witness ==
    /\ last_op = "evaluate"
    /\ Disp2(world, episode, episode.source_obj_id) = 1600
    /\ \E i \in Others(episode) : Disp2(world, episode, i) < 1600
    /\ \E i \in Others(episode) : Disp2(world, episode, i) > 1600
    /\ ret.moved_wrong_obj
    /\ ~ret.moved_correct_obj

\* C12: moved_correct_obj is true iff the source's planar displacement is
\* strictly greater than 0.03 and every other object's is strictly smaller than
\* the source's.
C12_MovedCorrect ==
    last_op = "evaluate" =>
        (ret.moved_correct_obj <=>
            /\ Disp2(world, episode, episode.source_obj_id) > 900
            /\ \A i \in Others(episode) :
                  Disp2(world, episode, i)
                      < Disp2(world, episode, episode.source_obj_id))

\* the source displaced by exactly 0.03, nothing else moved: false
C12_Witness ==
    /\ last_op = "evaluate"
    /\ Disp2(world, episode, episode.source_obj_id) = 900
    /\ \A i \in Others(episode) : Disp2(world, episode, i) = 0
    /\ ~ret.moved_correct_obj

\* a scene that holds the source alone, and the source pushed 0.04 in it
SourceOnlyEpisode ==
    [objs |-> <<"carrot">>,
     source_obj_id |-> 1,
     target_obj_id |-> 1,
     settle |-> << <<120, 0, 10>> >>,
     src_bbox |-> <<0, 0, 20>>,
     tgt_bbox |-> <<0, 0, 20>>,
     robot_links |-> RobotLinks]

SourceOnlyWorld == MkMoveWorld(SourceOnlyEpisode, <<<<40, 0>>>>)

\* C13: moved_wrong_obj is true iff some other object's planar displacement is
\* strictly greater than 0.03 and some other object's (not necessarily the
\* same) is strictly greater than the source's; with no other objects it is
\* false.
C13_MovedWrong ==
    /\ last_op = "evaluate" =>
          (ret.moved_wrong_obj <=>
              /\ \E i \in Others(episode) : Disp2(world, episode, i) > 900
              /\ \E i \in Others(episode) :
                    Disp2(world, episode, i)
                        > Disp2(world, episode, episode.source_obj_id))
    /\ ~moved_wrong_obj(SourceOnlyWorld, SourceOnlyEpisode)

\* the source did not move and another object moved exactly 0.03: more than
\* the source, not more than the threshold
C13_Witness ==
    /\ last_op = "evaluate"
    /\ Disp2(world, episode, episode.source_obj_id) = 0
    /\ \E i \in Others(episode) : Disp2(world, episode, i) = 900
    /\ \A i \in Others(episode) : Disp2(world, episode, i) <= 900
    /\ ~ret.moved_wrong_obj

\* a finger touches the source, or the end effector is nearer than 0.05
Engaged(w, ep) ==
    \/ \E i \in 1..Len(w.fingers) : w.fingers[i]
    \/ (w.ee_p[1] - w.obj_p[ep.source_obj_id][1]) * (w.ee_p[1] - w.obj_p[ep.source_obj_id][1])
       + (w.ee_p[2] - w.obj_p[ep.source_obj_id][2]) * (w.ee_p[2] - w.obj_p[ep.source_obj_id][2])
       + (w.ee_p[3] - w.obj_p[ep.source_obj_id][3]) * (w.ee_p[3] - w.obj_p[ep.source_obj_id][3])
       < 2500

\* C14: the stats flag source_intention is false after reset and every
\* evaluate call leaves it true iff it was true before or the call saw finger
\* contact with the source or an end-effector distance strictly below 0.05: it
\* is true iff some evaluate call since the last reset saw one of the two.
C14_SourceIntention ==
    /\ [][last_op' = "evaluate" =>
            (episode_stats'.source_intention <=>
                (episode_stats.source_intention \/ Engaged(world, episode)))]_vars
    /\ [](last_op = "reset" => ~episode_stats.source_intention)

\* the third call of an episode, at a distance of exactly 0.05 without finger
\* contact: the flag is still false
C14_Witness ==
    /\ last_op = "evaluate"
    /\ Len(grasp_hist) = 3
    /\ ~Engaged(world, episode)
    /\ Norm3Sq(VSub(world.ee_p, world.obj_p[episode.source_obj_id])) = 2500
    /\ ~episode_stats.source_intention

\* C16: the inverted-policy evaluator uses the xy tolerance 0.01 and never
\* applies the contact refinement: its src_on_target is xy_flag AND z_flag for
\* every set of contacts, also when the refinement is asked for.
C16_InvertedPlacement ==
    (last_op = "evaluate" /\ cls = InvertedCls) =>
        (ret.src_on_target <=>
            (xy_flag(world, episode, 10) /\ z_flag(world, episode, args.zoff)))

\* refinement asked for, the source touches a third body above 1e-6 and is
\* farther out than the 0.003 tolerance allows: placed all the same
C16_Witness ==
    /\ last_op = "evaluate"
    /\ cls = InvertedCls
    /\ args.require
    /\ ThirdBodyContact(world, episode)
    /\ ~xy_flag(world, episode, 3)
    /\ ret.src_on_target

\* C17: after every evaluate call the stats fields moved_correct_obj and
\* moved_wrong_obj are the values that call computed, whatever they were
\* before.
C17_MovedOverwritten ==
    last_op = "evaluate" =>
        /\ episode_stats.moved_correct_obj = ret.moved_correct_obj
        /\ episode_stats.moved_wrong_obj = ret.moved_wrong_obj
        /\ episode_stats.moved_correct_obj <=>
              /\ Disp2(world, episode, episode.source_obj_id) > 900
              /\ \A i \in Others(episode) :
                    Disp2(world, episode, i)
                        < Disp2(world, episode, episode.source_obj_id)
        /\ episode_stats.moved_wrong_obj <=>
              /\ \E i \in Others(episode) : Disp2(world, episode, i) > 900
              /\ \E i \in Others(episode) :
                    Disp2(world, episode, i)
                        > Disp2(world, episode, episode.source_obj_id)

\* an earlier call of the episode, whose result the caller kept, left
\* moved_correct_obj true; this call leaves it false
C17_Witness ==
    /\ last_op = "evaluate"
    /\ held # NoHeld
    /\ held.obj = stats_obj
    /\ held.at_call.moved_correct_obj
    /\ ~ret.moved_correct_obj
    /\ ~episode_stats.moved_correct_obj

\* C18: the episode_stats record in the result of an evaluate call keeps the
\* values it had at that call; later evaluate calls of the episode do not
\* change it.
C18_Snapshot == held # NoHeld => held.content = held.at_call

\* C15: for every position index p and orientation index o of the tables,
\* reset with episode_id = p * numOrientationConfigs + o selects position
\* config p and orientation config o; with 12 position and 2 orientation
\* configs, episode_id 5 selects position 2 and orientation 1.
C15_EpisodeIdMapping ==
    last_op = "reset" =>
        /\ \A p \in 0..(Len(_xy_configs) - 1), o \in 0..(Len(_quat_configs) - 1) :
              info.episode_id = p * Len(_quat_configs) + o =>
                  /\ options.obj_init_options.init_xys = <<"xy", p>>
                  /\ options.obj_init_options.init_rot_quats = <<"quat", o>>
        /\ (Len(_xy_configs) = 12 /\ Len(_quat_configs) = 2 /\ info.episode_id = 5) =>
              /\ options.obj_init_options.init_xys = _xy_configs[3]
              /\ options.obj_init_options.init_rot_quats = _quat_configs[2]

\* the spec's example: 12 and 2 configs, episode_id 5, position 2 selected
C15_Witness ==
    /\ last_op = "reset"
    /\ Len(_xy_configs) = 12
    /\ Len(_quat_configs) = 2
    /\ info.episode_id = 5
    /\ options.obj_init_options.init_xys = <<"xy", 2>>
    /\ options.obj_init_options.init_rot_quats = <<"quat", 1>>

\* C19: an evaluate call changes only the grasp counter and the episode
\* stats: the world it reads, the after-settle positions, the bounding boxes
\* and the configuration tables are the same after the call as before.
C19_EvaluateFrame ==
    [][last_op' = "evaluate" =>
          /\ world' = world
          /\ episode'.settle = episode.settle
          /\ episode'.src_bbox = episode.src_bbox
          /\ episode'.tgt_bbox = episode.tgt_bbox
          /\ episode' = episode
          /\ _xy_configs' = _xy_configs
          /\ _quat_configs' = _quat_configs]_vars

\* a call of a task with tables, on a world in which the source was moved
\* and is held: the counter and the stats changed
C19_Witness ==
    /\ last_op = "evaluate"
    /\ Len(_xy_configs) = 12
    /\ world.obj_p # episode.settle
    /\ world.grasp
    /\ consecutive_grasp >= 1
    /\ episode_stats # _initialize_episode_stats

\* the calls on the second instance
PeerOps == {"peer_step", "peer_evaluate", "peer_reset"}

\* C20: two instances share no evaluator state: a call on one instance leaves
\* the other's counter, stats and results as they were, and each instance's
\* counter and grasp flags are those its own calls alone produce.
C20_Isolation ==
    /\ [][/\ (last_op' \in PeerOps =>
                  /\ consecutive_grasp' = consecutive_grasp
                  /\ episode_stats' = episode_stats
                  /\ ret' = ret)
           /\ (last_op' \notin PeerOps =>
                  /\ peer'.consecutive_grasp = peer.consecutive_grasp
                  /\ peer'.episode_stats = peer.episode_stats
                  /\ peer'.ret = peer.ret)]_vars
    /\ [](/\ consecutive_grasp = TrailingTrue(grasp_hist)
          /\ peer.consecutive_grasp = TrailingTrue(peer.grasp_hist)
          /\ episode_stats.is_src_obj_grasped <=>
                \E i \in 1..Len(grasp_hist) : grasp_hist[i]
          /\ peer.episode_stats.is_src_obj_grasped <=>
                \E i \in 1..Len(peer.grasp_hist) : peer.grasp_hist[i])

\* interleaved calls: the first instance held the source on both of its
\* calls, the second on neither
C20_Witness ==
    /\ last_op = "peer_evaluate"
    /\ grasp_hist = <<TRUE, TRUE>>
    /\ consecutive_grasp = 2
    /\ peer.grasp_hist = <<FALSE, FALSE>>
    /\ peer.consecutive_grasp = 0
    /\ episode_stats.is_src_obj_grasped
    /\ ~peer.episode_stats.is_src_obj_grasped

\* the vertical tolerance a call asks for
CallZOff(c) == IF Supplies(c, 2, ZOffsetParam) THEN c.zoff ELSE 20

\* the call has no argument for either parameter
DefaultCall(c) == c.npos = 0 /\ c.kw \cap {RequireParam, ZOffsetParam} = {}

\* C21: PutSpoonOnTableClothInScene called without the flag skips the
\* contact-exclusivity refinement, so success equals xy_flag AND z_flag
\* whatever the spoon touches; a caller that passes
\* success_require_src_completely_on_target=True gets the refinement applied.
C21_SpoonRelaxed ==
    (cls = SpoonCls /\ last_op = "evaluate") =>
        LET flags == xy_flag(world, episode, 3)
                        /\ z_flag(world, episode, CallZOff(args.call))
        IN  /\ ~Supplies(args.call, 1, RequireParam) => (ret.success = flags)
            /\ (Supplies(args.call, 1, RequireParam) /\ args.call.require) =>
                  (ret.success = (flags /\ ~ThirdBodyContact(world, episode)))

\* the spoon lies on the cloth and presses on the table; the call without
\* arguments reports success
C21_Witness ==
    /\ cls = SpoonCls
    /\ last_op = "evaluate"
    /\ DefaultCall(args.call)
    /\ ThirdBodyContact(world, episode)
    /\ ret.success

\* the caller's options name a value of their own for every key the reset assigns
CallerSetsAll(o) ==
    /\ "model_ids" \in DOMAIN o
    /\ "obj_init_options" \in DOMAIN o
    /\ {"source_obj_id", "target_obj_id", "init_xys", "init_rot_quats"}
          \subseteq DOMAIN o.obj_init_options

\* C22: whatever model_ids, source_obj_id, target_obj_id, init_xys or
\* init_rot_quats the caller put in options, the options a bridge reset passes
\* on have model_ids = [source, target] followed by the distractor names,
\* source_obj_id = 0, target_obj_id = 1, and init_xys / init_rot_quats from the
\* table entries selected by episode_id.
C22_BridgeOptions ==
    last_op = "reset" =>
        LET n_quat == Len(_quat_configs)
            N == Len(_xy_configs) * n_quat
            id == info.episode_id
        IN  /\ options.model_ids =
                  (IF cls = BridgeV1Cls THEN <<"carrot", "plate", "spoon">>
                                        ELSE <<"carrot", "plate">>)
            /\ options.obj_init_options.source_obj_id = 0
            /\ options.obj_init_options.target_obj_id = 1
            /\ options.obj_init_options.init_xys =
                  _xy_configs[((id % N) \div n_quat) + 1]
            /\ options.obj_init_options.init_rot_quats =
                  _quat_configs[(id % n_quat) + 1]

\* the caller named three models of its own and swapped the two ids; the
\* reset of the distractor task passed on the task's
C22_Witness ==
    /\ last_op = "reset"
    /\ cls = BridgeV1Cls
    /\ CallerSetsAll(args.options)
    /\ args.options.obj_init_options.source_obj_id = 1
    /\ options.model_ids = <<"carrot", "plate", "spoon">>
    /\ options.obj_init_options.source_obj_id = 0

\* the caller's options carry an episode id
HasEpisodeId(o) ==
    /\ "obj_init_options" \in DOMAIN o
    /\ "episode_id" \in DOMAIN o.obj_init_options

\* the entries of a table
Entries(table) == {table[i] : i \in 1..Len(table)}

\* C28: reset accepts any integer episode_id: the configs it selects lie in
\* the tables, the episode_id of the returned info is the value as supplied,
\* and a reset whose id differs from the id of the reset before it by a
\* multiple of N = numPositionConfigs * numOrientationConfigs selects the
\* same position config and the same orientation config.
C28_AnyEpisodeId ==
    [][(last_op' = "reset" /\ HasEpisodeId(args'.options)) =>
          LET N == Len(_xy_configs) * Len(_quat_configs)
              supplied == args'.options.obj_init_options.episode_id
          IN  /\ info'.episode_id = supplied
              /\ options'.obj_init_options.init_xys \in Entries(_xy_configs)
              /\ options'.obj_init_options.init_rot_quats \in Entries(_quat_configs)
              /\ (/\ last_op = "reset"
                  /\ HasEpisodeId(args.options)
                  /\ (supplied - args.options.obj_init_options.episode_id) % N = 0) =>
                     /\ options'.obj_init_options.init_xys =
                            options.obj_init_options.init_xys
                     /\ options'.obj_init_options.init_rot_quats =
                            options.obj_init_options.init_rot_quats]_vars

\* a reset with the negative id -5 on tables of 3 and 2 configs: the configs
\* of id 1, the id reported as supplied
C28_Witness ==
    /\ last_op = "reset"
    /\ HasEpisodeId(args.options)
    /\ Len(_xy_configs) = 3
    /\ Len(_quat_configs) = 2
    /\ args.options.obj_init_options.episode_id = 0 - 5
    /\ info.episode_id = 0 - 5
    /\ options.obj_init_options.init_xys = <<"xy", 0>>
    /\ options.obj_init_options.init_rot_quats = <<"quat", 1>>

\* C23: in the inverted-policy task, success on an evaluate call implies that
\* the source was reported grasped on that call and on the four evaluate calls
\* before it since the reset; success is false on every call where the source
\* is not grasped and cannot occur before the fifth call of an episode.
C23_InvertedNeedsGrasp ==
    (cls = InvertedCls /\ last_op = "evaluate") =>
        /\ ret.success =>
              /\ Len(grasp_hist) >= 5
              /\ \A i \in (Len(grasp_hist) - 4)..Len(grasp_hist) : grasp_hist[i]
        /\ ~world.grasp => ~ret.success

\* the sixth call of an episode whose first call saw no grasp: success
C23_Witness ==
    /\ cls = InvertedCls
    /\ last_op = "evaluate"
    /\ ret.success
    /\ Len(grasp_hist) = 6
    /\ ~grasp_hist[1]

\* C24: after every evaluate call the returned is_src_obj_grasped implies
\* episode_stats.is_src_obj_grasped and the returned consecutive_grasp implies
\* episode_stats.consecutive_grasp; episode_stats.consecutive_grasp implies
\* episode_stats.is_src_obj_grasped at all times.
C24_GraspStatsOrder ==
    /\ last_op = "evaluate" =>
          /\ ret.is_src_obj_grasped => episode_stats.is_src_obj_grasped
          /\ ret.consecutive_grasp => episode_stats.consecutive_grasp
    /\ episode_stats.consecutive_grasp => episode_stats.is_src_obj_grasped

\* the first grasped call of an episode: the grasp is in the stats, the
\* consecutive flag in neither
C24_Witness ==
    /\ last_op = "evaluate"
    /\ Len(grasp_hist) = 1
    /\ ret.is_src_obj_grasped
    /\ episode_stats.is_src_obj_grasped
    /\ ~ret.consecutive_grasp
    /\ ~episode_stats.consecutive_grasp

\* both instances have evaluated the world in front of them
BothEvaluated == ret # NoRet /\ peer.ret # NoRet /\ world = peer.world

\* C25: under the default policy two episodes with different histories that
\* evaluate the same snapshot with the same parameters return the same
\* src_on_target and the same success.
C25_SuccessOfSnapshot ==
    (/\ BothEvaluated
     /\ cls = DefaultCls
     /\ peer.cls = DefaultCls
     /\ args = peer.args) =>
        /\ ret.src_on_target = peer.ret.src_on_target
        /\ ret.success = peer.ret.success

\* one episode on its fifth call, after four with the source held on the
\* target, the other on its first; the source now lies beside the target and
\* neither reports success
C25_Witness ==
    /\ BothEvaluated
    /\ cls = DefaultCls
    /\ peer.cls = DefaultCls
    /\ args = peer.args
    /\ Len(grasp_hist) = 5
    /\ Len(peer.grasp_hist) = 1
    /\ consecutive_grasp # peer.consecutive_grasp
    /\ episode_stats # peer.episode_stats
    /\ world.obj_p[1] = <<85, 0, 10>>
    /\ ~ret.success
    /\ ~peer.ret.success

\* C26: for the same world snapshot and the same vertical tolerance, whatever
\* the tracker state, the default evaluator and the inverted-policy evaluator
\* never both return success, and whenever the default evaluator's
\* src_on_target is true, with or without the contact refinement, the inverted
\* evaluator's src_on_target is true.
C26_PoliciesDisjoint ==
    (/\ BothEvaluated
     /\ cls = DefaultCls
     /\ peer.cls = InvertedCls
     /\ args.zoff = peer.args.zoff) =>
        /\ ~(ret.success /\ peer.ret.success)
        /\ ret.src_on_target => peer.ret.src_on_target

\* both trackers on their fifth held call and the source moved onto the
\* target, at the edge of the default planar bound: the default evaluator
\* reports success, the inverted one has every condition but the placement
C26_Witness ==
    /\ BothEvaluated
    /\ cls = DefaultCls
    /\ peer.cls = InvertedCls
    /\ args.zoff = peer.args.zoff
    /\ consecutive_grasp = 5
    /\ peer.consecutive_grasp = 5
    /\ world.obj_p[1] = <<73, 0, 45>>
    /\ ret.success
    /\ peer.ret.src_on_target
    /\ peer.ret.moved_correct_obj
    /\ peer.ret.consecutive_grasp
    /\ ~peer.ret.success

\* the call itself has a value for one of the two parameters
SuppliesSetting(c) == c.npos >= 1 \/ c.kw \cap {RequireParam, ZOffsetParam} # {}

\* C27: PutEggplantInBasketScene evaluates with the contact-exclusivity
\* refinement skipped and a vertical tolerance of 0.06; an evaluate call that
\* itself supplies success_require_src_completely_on_target or
\* z_flag_required_offset, by keyword or positionally, ends in an error and
\* leaves the grasp counter and the episode stats unchanged.
C27_EggplantSettings ==
    [][(cls = EggplantCls /\ last_op' \in {"evaluate", "evaluate_error"}) =>
          IF SuppliesSetting(args'.call)
          THEN /\ last_op' = "evaluate_error"
               /\ ret' = [error |-> "TypeError"]
               /\ consecutive_grasp' = consecutive_grasp
               /\ episode_stats' = episode_stats
          ELSE /\ last_op' = "evaluate"
               /\ ret'.success =
                     (xy_flag(world, episode, 3) /\ z_flag(world, episode, 60))]_vars

\* the eggplant is held in the basket and the caller asks for the refinement
\* by keyword: an error, the counter still 0 and no grasp in the stats
C27_Witness ==
    /\ cls = EggplantCls
    /\ last_op = "evaluate_error"
    /\ args.call.npos = 0
    /\ args.call.kw = {RequireParam}
    /\ world.grasp
    /\ world.obj_p[1] = <<0, 0, 45>>
    /\ consecutive_grasp = 0
    /\ ~episode_stats.is_src_obj_grasped
    /\ ~episode_stats.src_on_target

\* C29: PutSpoonOnTableClothInSceneDistract and
\* PutSpoonOnTableClothInSceneLangV2 called with default arguments apply the
\* contact-exclusivity refinement: a spoon that satisfies both geometric flags
\* but touches a third body with impulse above 1e-6 gives success false there
\* and success true in PutSpoonOnTableClothInScene for the same snapshot.
C29_DistractNotRelaxed ==
    (/\ last_op = "evaluate"
     /\ DefaultCall(args.call)
     /\ xy_flag(world, episode, 3)
     /\ z_flag(world, episode, 20)
     /\ ThirdBodyContact(world, episode)) =>
        /\ cls \in {"PutSpoonOnTableClothInSceneDistract",
                    "PutSpoonOnTableClothInSceneLangV2"} => ~ret.success
        /\ cls = "PutSpoonOnTableClothInScene" => ret.success

\* the distractor task, the spoon on the cloth pressing on the table, the
\* call without arguments: no success
C29_Witness ==
    /\ cls = "PutSpoonOnTableClothInSceneDistract"
    /\ last_op = "evaluate"
    /\ DefaultCall(args.call)
    /\ xy_flag(world, episode, 3)
    /\ z_flag(world, episode, 20)
    /\ ThirdBodyContact(world, episode)
    /\ ~ret.src_on_target
    /\ ~ret.success

\* C30: the target is one of the other objects of the displacement
\* predicates: in a call where the target's planar displacement is >= the
\* source's, moved_correct_obj is false, and where it is > 0.03 and > the
\* source's, moved_wrong_obj is true, also in scenes of two objects.
C30_TargetCounts ==
    last_op = "evaluate" =>
        LET src == Disp2(world, episode, episode.source_obj_id)
            tgt == Disp2(world, episode, episode.target_obj_id)
        IN  /\ tgt >= src => ~ret.moved_correct_obj
            /\ (tgt > 900 /\ tgt > src) => ret.moved_wrong_obj

\* a scene of two objects: the source pushed 0.04, the target 0.05
C30_Witness ==
    /\ last_op = "evaluate"
    /\ Len(episode.objs) = 2
    /\ Disp2(world, episode, episode.source_obj_id) = 1600
    /\ Disp2(world, episode, episode.target_obj_id) = 2500
    /\ ~ret.moved_correct_obj
    /\ ret.moved_wrong_obj

====
